---- MODULE Spec2Model ----
(***************************************************************************)
(* Cluster-autoscaler cost and utilization estimators.                     *)
(*                                                                         *)
(*   GcePriceModel (gce price model): NodePrice, PodPrice, getBasePrice,   *)
(*     getAdditionalPrice, getPreemptibleDiscount, getHours, ...           *)
(*   simulator/utilization/info.go: Calculate,                             *)
(*     calculateUtilizationOfResource                                      *)
(*                                                                         *)
(* All of these are pure functions.  A behaviour is one call: the initial  *)
(* state holds the arguments (pc = "call"), the single step applies the    *)
(* function and stores what it returns (pc = "done").                      *)
(*                                                                         *)
(* Numbers.  float64 values are modelled as exact rationals.               *)
(*   - a time.Time is a count of ticks, TicksPerMinute ticks to a minute;  *)
(*   - hours are a numerator over HoursDen (getHours returns minutes/60);  *)
(*   - hourly prices are integers (an arbitrary money unit);               *)
(*   - discount factors are numerators over DiscountDen;                   *)
(*   - a cost is a numerator over CostDen;                                 *)
(*   - CPU and GPU quantities are milli-units (Quantity.MilliValue), the   *)
(*     memory quantities of the price model are Quantity.Value in units of *)
(*     1/GiB of a GiB;                                                     *)
(*   - a utilization is the pair [num, den] of the float division          *)
(*     float64(num) / float64(den); den = 0 is Go's NaN (num = 0) or +Inf. *)
(* Strings that the code takes apart (instance types) are sequences of     *)
(* one-character strings.                                                  *)
(***************************************************************************)
EXTENDS Integers, Sequences, FiniteSets, TLC

VARIABLES pc, op, model, node, pod, startTime, endTime, price, hours,
          nodeInfo, resourceName, skipDaemonSetPods, skipMirrorPods,
          utilInfo, util, err

priceVars == <<model, node, pod, startTime, endTime, price, hours>>
utilVars == <<nodeInfo, resourceName, skipDaemonSetPods, skipMirrorPods,
              utilInfo, util>>
vars == <<pc, op, err, priceVars, utilVars>>

----------------------------------------------------------------------------
(* Bounds of the model *)

TicksPerMinute == 2
MaxStart == 1
MaxMinutes == 91
MaxContainers == 2
MaxPods == 2

----------------------------------------------------------------------------
(* Program constants *)

HoursDen == 60
MilliDen == 1000
GiB == 4
DiscountDen == 4
CostDen == HoursDen * MilliDen * GiB * DiscountDen

preemptibleLabel == "cloud.google.com/gke-preemptible"
spotLabel == "cloud.google.com/gke-spot"
LabelInstanceTypeStable == "node.kubernetes.io/instance-type"
LabelInstanceType == "beta.kubernetes.io/instance-type"
GPULabel == "cloud.google.com/gke-accelerator"

ResourceCPU == "cpu"
ResourceMemory == "memory"
ResourceNvidiaGPU == "nvidia.com/gpu"

(* the package-level default discount, preemptibleDiscount / DiscountDen *)
preemptibleDiscount == 1

Nil == "nil"

----------------------------------------------------------------------------
(* Strings and maps *)

Dash == "-"
Custom == <<"c", "u", "s", "t", "o", "m">>

N1Standard1 == <<"n", "1", "-", "s", "t", "a", "n", "d", "a", "r", "d", "-", "1">>
E2Medium == <<"e", "2", "-", "m", "e", "d", "i", "u", "m">>
N2Custom2 == <<"n", "2", "-", "c", "u", "s", "t", "o", "m", "-", "2">>
EmptyString == <<>>
N1 == <<"n", "1">>
N2 == <<"n", "2">>
E2 == <<"e", "2">>

EmptyMap == <<>>

(* v, found := m[k] *)
Found(m, k) == k \in DOMAIN m
Lookup(m, k, zero) == IF k \in DOMAIN m THEN m[k] ELSE zero

(* every map with the single key k and a value of V, and the map without k *)
Opt(k, V) == {EmptyMap} \cup {k :> v : v \in V}

SetMin(S) == CHOOSE x \in S : \A y \in S : x <= y

(* math.Ceil(float64(n) / float64(d)) for d > 0 *)
Ceil(n, d) == IF n % d = 0 THEN n \div d ELSE (n \div d) + 1

----------------------------------------------------------------------------
(* GCE price model *)

(* A node is [LabelsNil, Labels, Capacity]: LabelsNil is node.Labels == nil, *)
(* and a nil map reads as the empty map.                                    *)

(* mutant: the window is rounded up to whole hours *)
getHours_WholeHours(start, end) ==
    Ceil(Ceil(end - start, TicksPerMinute), HoursDen) * HoursDen

(* hours * HoursDen: the minutes of the window, partial minutes rounded up *)
getHours(start, end) == Ceil(end - start, TicksPerMinute)

getInstanceFamily(instanceType) ==
    LET dashes == {i \in 1..Len(instanceType) : instanceType[i] = Dash}
    IN  IF dashes = {} THEN instanceType
        ELSE SubSeq(instanceType, 1, SetMin(dashes) - 1)

isInstanceCustom(instanceType) ==
    \E i \in 1..Len(instanceType) :
        /\ i + Len(Custom) - 1 <= Len(instanceType)
        /\ SubSeq(instanceType, i, i + Len(Custom) - 1) = Custom

hasPreemptiblePricing(n) ==
    IF n.LabelsNil THEN FALSE
    ELSE \/ Lookup(n.Labels, preemptibleLabel, "") = "true"
         \/ Lookup(n.Labels, spotLabel, "") = "true"

getInstanceTypeFound(labels) ==
    Found(labels, LabelInstanceTypeStable) \/ Found(labels, LabelInstanceType)

getInstanceTypeFromLabels(labels) ==
    IF Found(labels, LabelInstanceTypeStable) THEN labels[LabelInstanceTypeStable]
    ELSE Lookup(labels, LabelInstanceType, EmptyString)

(* mutant: the custom discount table is never consulted *)
getPreemptibleDiscount_PredefinedOnly(m, n) ==
    IF ~hasPreemptiblePricing(n) THEN DiscountDen
    ELSE IF ~getInstanceTypeFound(n.Labels) THEN DiscountDen
    ELSE LET instanceFamily == getInstanceFamily(getInstanceTypeFromLabels(n.Labels))
         IN  Lookup(m.PredefinedPreemptibleDiscount, instanceFamily,
                    preemptibleDiscount)

(* in units of 1 / DiscountDen *)
getPreemptibleDiscount(m, n) ==
    IF ~hasPreemptiblePricing(n) THEN DiscountDen
    ELSE IF ~getInstanceTypeFound(n.Labels) THEN DiscountDen
    ELSE LET instanceType == getInstanceTypeFromLabels(n.Labels)
             instanceFamily == getInstanceFamily(instanceType)
             discountMap == IF isInstanceCustom(instanceType)
                            THEN m.CustomPreemptibleDiscount
                            ELSE m.PredefinedPreemptibleDiscount
         IN  IF Found(discountMap, instanceFamily) THEN discountMap[instanceFamily]
             ELSE preemptibleDiscount

(* in units of 1 / (HoursDen * MilliDen * GiB) *)
getBasePrice(m, resources, instanceType, start, end) ==
    IF DOMAIN resources = {} THEN 0
    ELSE LET h == getHours(start, end)
             instanceFamily == getInstanceFamily(instanceType)
             isCustom == isInstanceCustom(instanceType)
             cpu == Lookup(resources, ResourceCPU, 0)
             cpuPriceMap == IF isCustom THEN m.CustomCpuPricePerHour
                            ELSE m.PredefinedCpuPricePerHour
             cpuPrice == Lookup(cpuPriceMap, instanceFamily, m.BaseCpuPricePerHour)
             mem == Lookup(resources, ResourceMemory, 0)
             memPriceMap == IF isCustom THEN m.CustomMemoryPricePerHourPerGb
                            ELSE m.PredefinedMemoryPricePerHourPerGb
             memPrice == Lookup(memPriceMap, instanceFamily,
                                m.BaseMemoryPricePerHourPerGb)
         IN  cpu * cpuPrice * h * GiB + mem * memPrice * h * MilliDen

(* in units of 1 / (HoursDen * MilliDen) *)
getAdditionalPrice(m, resources, start, end) ==
    IF DOMAIN resources = {} THEN 0
    ELSE Lookup(resources, ResourceNvidiaGPU, 0) * m.BaseGpuPricePerHour
             * getHours(start, end)

(* the GPU block of NodePrice, in units of 1 / (HoursDen * MilliDen) *)
NodeGpuPrice(m, n, start, end) ==
    IF ~Found(n.Capacity, ResourceNvidiaGPU) THEN 0
    ELSE LET priceMapToUse == IF hasPreemptiblePricing(n)
                              THEN m.PreemptibleGpuPrices ELSE m.GpuPrices
             gpuPrice == IF ~n.LabelsNil /\ Found(n.Labels, GPULabel)
                         THEN Lookup(priceMapToUse, n.Labels[GPULabel],
                                     m.BaseGpuPricePerHour)
                         ELSE m.BaseGpuPricePerHour
         IN  n.Capacity[ResourceNvidiaGPU] * gpuPrice * getHours(start, end)

(* mutant: the preemptible discount is applied to the table price as well *)
NodeBasePrice_DiscountedTable(m, n, start, end) ==
    LET found == ~n.LabelsNil /\ getInstanceTypeFound(n.Labels)
        machineType == getInstanceTypeFromLabels(n.Labels)
        priceMapToUse == IF hasPreemptiblePricing(n)
                         THEN m.PreemptibleInstancePrices ELSE m.InstancePrices
    IN  IF found /\ Found(priceMapToUse, machineType)
        THEN priceMapToUse[machineType] * getHours(start, end)
                 * MilliDen * GiB * getPreemptibleDiscount(m, n)
        ELSE IF getInstanceTypeFound(n.Labels)
        THEN getBasePrice(m, n.Capacity, machineType, start, end)
                 * getPreemptibleDiscount(m, n)
        ELSE 0

(* mutant: the fallback does not ask whether an instance type was found *)
NodeBasePrice_AlwaysFallsBack(m, n, start, end) ==
    LET found == ~n.LabelsNil /\ getInstanceTypeFound(n.Labels)
        machineType == getInstanceTypeFromLabels(n.Labels)
        priceMapToUse == IF hasPreemptiblePricing(n)
                         THEN m.PreemptibleInstancePrices ELSE m.InstancePrices
    IN  IF found /\ Found(priceMapToUse, machineType)
        THEN priceMapToUse[machineType] * getHours(start, end)
                 * MilliDen * GiB * DiscountDen
        ELSE getBasePrice(m, n.Capacity, machineType, start, end)
                 * getPreemptibleDiscount(m, n)

(* the base instance price of NodePrice, in units of 1 / CostDen *)
NodeBasePrice(m, n, start, end) ==
    LET found == ~n.LabelsNil /\ getInstanceTypeFound(n.Labels)
        machineType == getInstanceTypeFromLabels(n.Labels)
        priceMapToUse == IF hasPreemptiblePricing(n)
                         THEN m.PreemptibleInstancePrices ELSE m.InstancePrices
        basePriceFound == found /\ Found(priceMapToUse, machineType)
    IN  IF basePriceFound
        THEN priceMapToUse[machineType] * getHours(start, end)
                 * MilliDen * GiB * DiscountDen
        ELSE IF getInstanceTypeFound(n.Labels)
        THEN getBasePrice(m, n.Capacity, machineType, start, end)
                 * getPreemptibleDiscount(m, n)
        ELSE 0

(* in units of 1 / CostDen *)
NodePrice(m, n, start, end) ==
    [price |-> NodeBasePrice(m, n, start, end)
                   + NodeGpuPrice(m, n, start, end) * GiB * DiscountDen,
     err |-> Nil]

RECURSIVE PodPriceLoop(_, _, _, _)
PodPriceLoop(m, containers, start, end) ==
    IF containers = <<>> THEN 0
    ELSE getBasePrice(m, Head(containers), EmptyString, start, end) * DiscountDen
         + getAdditionalPrice(m, Head(containers), start, end) * GiB * DiscountDen
         + PodPriceLoop(m, Tail(containers), start, end)

(* mutant: the default preemptible discount is applied to the pod *)
PodPrice_Discounted(m, p, start, end) ==
    [price |-> (PodPriceLoop(m, p.Containers, start, end) * preemptibleDiscount)
                   \div DiscountDen,
     err |-> Nil]

(* in units of 1 / CostDen *)
PodPrice(m, p, start, end) ==
    [price |-> PodPriceLoop(m, p.Containers, start, end), err |-> Nil]

----------------------------------------------------------------------------
(* float64 *)

RECURSIVE GCD(_, _)
GCD(a, b) == IF b = 0 THEN a ELSE GCD(b, a % b)

Abs(x) == IF x < 0 THEN -x ELSE x
Sign(x) == IF x < 0 THEN -1 ELSE IF x = 0 THEN 0 ELSE 1

(* float64(n) / float64(d), as a reduced fraction with den > 0;            *)
(* division by zero gives NaN = 0/0, +Inf = 1/0 or -Inf = -1/0             *)
FloatDiv(n, d) ==
    IF d = 0 THEN [num |-> Sign(n), den |-> 0]
    ELSE LET g == GCD(Abs(n), Abs(d))
         IN  [num |-> (Sign(d) * n) \div g, den |-> Abs(d) \div g]

FloatZero == [num |-> 0, den |-> 1]
IsNaN(x) == x.den = 0 /\ x.num = 0
IsInf(x) == x.den = 0 /\ x.num # 0

(* a > b on float64: false when either is NaN *)
FloatGt(a, b) ==
    /\ ~IsNaN(a) /\ ~IsNaN(b)
    /\ IF IsInf(a) /\ IsInf(b) THEN a.num > b.num
       ELSE a.num * b.den > b.num * a.den

----------------------------------------------------------------------------
(* Node utilization *)

(* A NodeInfo is [HasGpu, Allocatable, Pods]; HasGpu is what gpu.NodeHasGpu *)
(* answers for the node.  A pod is [IsDaemonSet, IsMirror,                  *)
(* IsLongTerminating, Containers], the answers of the pod predicates as of  *)
(* currentTime, and the resource requests of its containers in milli-units. *)

NodeHasGpu(ni) == ni.HasGpu
IsDaemonSetPod(p) == p.IsDaemonSet
IsMirrorPod(p) == p.IsMirror
IsPodLongTerminating(p) == p.IsLongTerminating

ErrMissing == "failed to get resource"
ErrZero == "resource is 0"

(* the loop over pod.Spec.Containers adding Requests[resourceName] *)
RECURSIVE ContainerRequests(_, _)
ContainerRequests(containers, name) ==
    IF containers = <<>> THEN 0
    ELSE Lookup(Head(containers), name, 0)
         + ContainerRequests(Tail(containers), name)

(* mutant: pods that should be terminated are counted like any other pod *)
RECURSIVE PodsLoop_CountsTerminating(_, _, _, _, _)
PodsLoop_CountsTerminating(pods, name, skipDS, skipMirror, acc) ==
    IF pods = <<>> THEN acc
    ELSE LET p == Head(pods)
             r == ContainerRequests(p.Containers, name)
             next ==
                 IF (skipDS /\ IsDaemonSetPod(p)) \/ (skipMirror /\ IsMirrorPod(p))
                 THEN [acc EXCEPT !.daemonSetAndMirrorPodsUtilization = @ + r]
                 ELSE [acc EXCEPT !.podsRequest = @ + r]
         IN  PodsLoop_CountsTerminating(Tail(pods), name, skipDS, skipMirror, next)

(* the loop over nodeInfo.Pods; acc is                                      *)
(* [podsRequest, daemonSetAndMirrorPodsUtilization]                         *)
RECURSIVE PodsLoop(_, _, _, _, _)
PodsLoop(pods, name, skipDS, skipMirror, acc) ==
    IF pods = <<>> THEN acc
    ELSE LET p == Head(pods)
             r == ContainerRequests(p.Containers, name)
             next ==
                 IF skipDS /\ IsDaemonSetPod(p)
                 THEN [acc EXCEPT !.daemonSetAndMirrorPodsUtilization = @ + r]
                 ELSE IF skipMirror /\ IsMirrorPod(p)
                 THEN [acc EXCEPT !.daemonSetAndMirrorPodsUtilization = @ + r]
                 ELSE IF IsPodLongTerminating(p)
                 THEN acc
                 ELSE [acc EXCEPT !.podsRequest = @ + r]
         IN  PodsLoop(Tail(pods), name, skipDS, skipMirror, next)

(* mutant: skipped pods are left out of the requests but not taken off the *)
(* allocatable                                                             *)
calculateUtilizationOfResource_NoAdjustment(ni, name, skipDS, skipMirror) ==
    IF ~Found(ni.Allocatable, name) THEN [util |-> FloatZero, err |-> ErrMissing]
    ELSE IF ni.Allocatable[name] = 0 THEN [util |-> FloatZero, err |-> ErrZero]
    ELSE LET acc == PodsLoop(ni.Pods, name, skipDS, skipMirror,
                             [podsRequest |-> 0,
                              daemonSetAndMirrorPodsUtilization |-> 0])
         IN  [util |-> FloatDiv(acc.podsRequest, ni.Allocatable[name]),
              err |-> Nil]

calculateUtilizationOfResource(ni, name, skipDS, skipMirror) ==
    IF ~Found(ni.Allocatable, name) THEN [util |-> FloatZero, err |-> ErrMissing]
    ELSE IF ni.Allocatable[name] = 0 THEN [util |-> FloatZero, err |-> ErrZero]
    ELSE LET acc == PodsLoop(ni.Pods, name, skipDS, skipMirror,
                             [podsRequest |-> 0,
                              daemonSetAndMirrorPodsUtilization |-> 0])
         IN  [util |-> FloatDiv(acc.podsRequest,
                                ni.Allocatable[name]
                                    - acc.daemonSetAndMirrorPodsUtilization),
              err |-> Nil]

(* Info{} *)
ZeroInfo ==
    [CpuUtil |-> FloatZero, MemUtil |-> FloatZero, GpuUtil |-> FloatZero,
     ResourceName |-> "", Utilization |-> FloatZero]

(* the CPU/memory branch of Calculate *)
CalculateCpuMem(ni, skipDS, skipMirror) ==
    LET cpu == calculateUtilizationOfResource(ni, ResourceCPU, skipDS, skipMirror)
        mem == calculateUtilizationOfResource(ni, ResourceMemory, skipDS, skipMirror)
    IN  IF cpu.err # Nil THEN [info |-> ZeroInfo, err |-> cpu.err]
        ELSE IF mem.err # Nil THEN [info |-> ZeroInfo, err |-> mem.err]
        ELSE IF FloatGt(cpu.util, mem.util)
        THEN [info |-> [ZeroInfo EXCEPT !.CpuUtil = cpu.util,
                                        !.MemUtil = mem.util,
                                        !.ResourceName = ResourceCPU,
                                        !.Utilization = cpu.util],
              err |-> Nil]
        ELSE [info |-> [ZeroInfo EXCEPT !.CpuUtil = cpu.util,
                                        !.MemUtil = mem.util,
                                        !.ResourceName = ResourceMemory,
                                        !.Utilization = mem.util],
              err |-> Nil]

(* mutant: a node with an unready GPU is handled like a node without GPU *)
Calculate_UnreadyGpuFallsThrough(ni, skipDS, skipMirror) ==
    LET g == calculateUtilizationOfResource(ni, ResourceNvidiaGPU,
                                            skipDS, skipMirror)
    IN  IF NodeHasGpu(ni) /\ g.err = Nil
        THEN [info |-> [ZeroInfo EXCEPT !.GpuUtil = g.util,
                                        !.ResourceName = ResourceNvidiaGPU,
                                        !.Utilization = g.util],
              err |-> Nil]
        ELSE CalculateCpuMem(ni, skipDS, skipMirror)

(* mutant: the error of an unready GPU is returned to the caller *)
Calculate_GpuErrorReturned(ni, skipDS, skipMirror) ==
    IF NodeHasGpu(ni)
    THEN LET g == calculateUtilizationOfResource(ni, ResourceNvidiaGPU,
                                                 skipDS, skipMirror)
         IN  IF g.err # Nil THEN [info |-> ZeroInfo, err |-> g.err]
             ELSE [info |-> [ZeroInfo EXCEPT !.GpuUtil = g.util,
                                             !.ResourceName = ResourceNvidiaGPU,
                                             !.Utilization = g.util],
                   err |-> Nil]
    ELSE CalculateCpuMem(ni, skipDS, skipMirror)

Calculate(ni, skipDS, skipMirror) ==
    IF NodeHasGpu(ni)
    THEN LET g == calculateUtilizationOfResource(ni, ResourceNvidiaGPU,
                                                 skipDS, skipMirror)
         IN  IF g.err # Nil
             THEN [info |-> [ZeroInfo EXCEPT !.ResourceName = ResourceNvidiaGPU],
                   err |-> Nil]
             ELSE [info |-> [ZeroInfo EXCEPT !.GpuUtil = g.util,
                                             !.ResourceName = ResourceNvidiaGPU,
                                             !.Utilization = g.util],
                   err |-> Nil]
    ELSE CalculateCpuMem(ni, skipDS, skipMirror)

----------------------------------------------------------------------------
(* Arguments of the price model's calls *)

T4 == <<"t", "4">>
K80 == <<"k", "8", "0">>

(* PriceInfo: the catalog handed to NewGcePriceModel *)
PriceInfo(tables, disc, predef, cust) ==
    [ BaseCpuPricePerHour |-> 3,
      BaseMemoryPricePerHourPerGb |-> 2,
      BaseGpuPricePerHour |-> 7,
      InstancePrices |->
          IF tables = 1 THEN N1Standard1 :> 100 @@ E2Medium :> 30
          ELSE N1Standard1 :> 60,
      PreemptibleInstancePrices |->
          IF tables = 1 THEN N1Standard1 :> 10 ELSE EmptyMap,
      GpuPrices |-> IF tables = 1 THEN T4 :> 9 ELSE EmptyMap,
      PreemptibleGpuPrices |-> IF tables = 1 THEN T4 :> 4 ELSE T4 :> 5,
      PredefinedCpuPricePerHour |->
          CASE predef = 1 -> EmptyMap
            [] predef = 2 -> N1 :> 4 @@ E2 :> 2
            [] OTHER -> N1 :> 4 @@ EmptyString :> 1,
      PredefinedMemoryPricePerHourPerGb |->
          CASE predef = 1 -> EmptyMap
            [] predef = 2 -> N1 :> 1
            [] OTHER -> E2 :> 3 @@ EmptyString :> 5,
      CustomCpuPricePerHour |->
          IF cust = 1 THEN EmptyMap ELSE N2 :> 5 @@ EmptyString :> 6,
      CustomMemoryPricePerHourPerGb |->
          IF cust = 1 THEN EmptyMap ELSE N2 :> 3 @@ EmptyString :> 4,
      PredefinedPreemptibleDiscount |->
          IF disc = 1 THEN EmptyMap ELSE N1 :> 2 @@ E2 :> DiscountDen @@ N2 :> 0,
      CustomPreemptibleDiscount |->
          IF disc = 1 THEN EmptyMap ELSE N2 :> 3 @@ N1 :> 0 ]

PriceInfos ==
    {PriceInfo(t, d, p, c) : t \in 1..2, d \in 1..2, p \in 1..3, c \in 1..2}

InstanceTypes == {N1Standard1, E2Medium, N2Custom2, EmptyString}

LabelMaps ==
    {a @@ b @@ c @@ d @@ e :
        a \in Opt(LabelInstanceTypeStable, InstanceTypes),
        b \in Opt(LabelInstanceType, {N1Standard1}),
        c \in Opt(preemptibleLabel, {"true", "false"}),
        d \in Opt(spotLabel, {"true"}),
        e \in Opt(GPULabel, {T4, K80})}

(* CPU and GPU in milli-units, memory in 1/GiB of a GiB *)
Capacities ==
    { EmptyMap,
      ResourceCPU :> 2000 @@ ResourceMemory :> 8 * GiB,
      ResourceCPU :> 1000 @@ ResourceMemory :> 6 @@ ResourceNvidiaGPU :> 1000,
      ResourceCPU :> 0 @@ ResourceMemory :> 0,
      ResourceNvidiaGPU :> 2000 }

Nodes ==
    {[LabelsNil |-> FALSE, Labels |-> l, Capacity |-> c] :
        l \in LabelMaps, c \in Capacities}
    \cup {[LabelsNil |-> TRUE, Labels |-> EmptyMap, Capacity |-> c] :
        c \in Capacities}

Requests ==
    { EmptyMap,
      ResourceCPU :> 500,
      ResourceCPU :> 250 @@ ResourceMemory :> 2,
      ResourceCPU :> 1000 @@ ResourceMemory :> GiB @@ ResourceNvidiaGPU :> 1000 }

SeqsUpTo(S, n) == UNION {[1..k -> S] : k \in 0..n}

PricedPods == {[Containers |-> cs] : cs \in SeqsUpTo(Requests, MaxContainers)}

(* <<startTime, endTime>>: an empty window, 60 minutes and a tick, 90 minutes *)
Windows ==
    { <<0, 0>>,
      <<0, 60 * TicksPerMinute + 1>>,
      <<1, 1 + 90 * TicksPerMinute>> }

NoNode == [LabelsNil |-> TRUE, Labels |-> EmptyMap, Capacity |-> EmptyMap]
NoPod == [Containers |-> <<>>]
NoPriceInfo == PriceInfo(1, 1, 1, 1)
NoNodeInfo == [HasGpu |-> FALSE, Allocatable |-> EmptyMap, Pods |-> <<>>]

UtilIdle ==
    /\ nodeInfo = NoNodeInfo
    /\ resourceName = ""
    /\ skipDaemonSetPods = FALSE
    /\ skipMirrorPods = FALSE
    /\ utilInfo = ZeroInfo
    /\ util = FloatZero

InitGetHours ==
    /\ op = "getHours"
    /\ model = NoPriceInfo /\ node = NoNode /\ pod = NoPod
    /\ startTime \in 0..MaxStart
    /\ endTime \in startTime..(MaxMinutes * TicksPerMinute)

InitNodePrice ==
    /\ op = "NodePrice"
    /\ model \in PriceInfos /\ node \in Nodes /\ pod = NoPod
    /\ \E w \in Windows : startTime = w[1] /\ endTime = w[2]

InitPodPrice ==
    /\ op = "PodPrice"
    /\ model \in PriceInfos /\ node = NoNode /\ pod \in PricedPods
    /\ \E w \in Windows : startTime = w[1] /\ endTime = w[2]

InitPrice ==
    /\ pc = "call"
    /\ price = 0 /\ hours = 0 /\ err = Nil
    /\ UtilIdle
    /\ (InitGetHours \/ InitNodePrice \/ InitPodPrice)

CallGetHours ==
    /\ pc = "call" /\ op = "getHours"
    /\ hours' = getHours(startTime, endTime)
    /\ pc' = "done"
    /\ UNCHANGED <<op, err, model, node, pod, startTime, endTime, price, utilVars>>

CallNodePrice ==
    /\ pc = "call" /\ op = "NodePrice"
    /\ LET r == NodePrice(model, node, startTime, endTime)
       IN  price' = r.price /\ err' = r.err
    /\ pc' = "done"
    /\ UNCHANGED <<op, model, node, pod, startTime, endTime, hours, utilVars>>

CallPodPrice ==
    /\ pc = "call" /\ op = "PodPrice"
    /\ LET r == PodPrice(model, pod, startTime, endTime)
       IN  price' = r.price /\ err' = r.err
    /\ pc' = "done"
    /\ UNCHANGED <<op, model, node, pod, startTime, endTime, hours, utilVars>>

NextPrice == CallGetHours \/ CallNodePrice \/ CallPodPrice

SpecPrice == InitPrice /\ [][NextPrice]_vars

----------------------------------------------------------------------------
(* Arguments of the utilization calls *)

Resources == {ResourceCPU, ResourceMemory, ResourceNvidiaGPU}

Allocatables ==
    { EmptyMap,
      ResourceCPU :> 2000 @@ ResourceMemory :> 1000,
      ResourceCPU :> 1000 @@ ResourceMemory :> 500 @@ ResourceNvidiaGPU :> 1000,
      ResourceCPU :> 0 @@ ResourceMemory :> 1000 @@ ResourceNvidiaGPU :> 0,
      ResourceCPU :> 2000 @@ ResourceMemory :> 0,
      ResourceCPU :> 2000,
      ResourceMemory :> 1000 }

PodContainers ==
    { << ResourceCPU :> 500 @@ ResourceMemory :> 250 >>,
      << ResourceCPU :> 100 @@ ResourceNvidiaGPU :> 500,
         ResourceCPU :> 200 @@ ResourceMemory :> 1000 @@ ResourceNvidiaGPU :> 500 >> }

ScheduledPods ==
    {[IsDaemonSet |-> ds, IsMirror |-> mi, IsLongTerminating |-> lt,
      Containers |-> cs] :
        ds \in BOOLEAN, mi \in BOOLEAN, lt \in BOOLEAN, cs \in PodContainers}

NodeInfos ==
    {[HasGpu |-> g, Allocatable |-> a, Pods |-> ps] :
        g \in BOOLEAN, a \in Allocatables, ps \in SeqsUpTo(ScheduledPods, MaxPods)}

PriceIdle ==
    /\ model = NoPriceInfo /\ node = NoNode /\ pod = NoPod
    /\ startTime = 0 /\ endTime = 0 /\ price = 0 /\ hours = 0

InitCalculate ==
    /\ op = "Calculate"
    /\ nodeInfo \in NodeInfos
    /\ resourceName = ""

(* NodeHasGpu plays no part in calculateUtilizationOfResource *)
InitCalculateUtilizationOfResource ==
    /\ op = "calculateUtilizationOfResource"
    /\ nodeInfo \in {ni \in NodeInfos : ~ni.HasGpu}
    /\ resourceName \in Resources

InitUtil ==
    /\ pc = "call"
    /\ err = Nil /\ utilInfo = ZeroInfo /\ util = FloatZero
    /\ PriceIdle
    /\ skipDaemonSetPods \in BOOLEAN
    /\ skipMirrorPods \in BOOLEAN
    /\ (InitCalculate \/ InitCalculateUtilizationOfResource)

CallCalculate ==
    /\ pc = "call" /\ op = "Calculate"
    /\ LET r == Calculate(nodeInfo, skipDaemonSetPods, skipMirrorPods)
       IN  utilInfo' = r.info /\ err' = r.err
    /\ pc' = "done"
    /\ UNCHANGED <<op, priceVars, nodeInfo, resourceName, skipDaemonSetPods,
                   skipMirrorPods, util>>

CallCalculateUtilizationOfResource ==
    /\ pc = "call" /\ op = "calculateUtilizationOfResource"
    /\ LET r == calculateUtilizationOfResource(nodeInfo, resourceName,
                                               skipDaemonSetPods, skipMirrorPods)
       IN  util' = r.util /\ err' = r.err
    /\ pc' = "done"
    /\ UNCHANGED <<op, priceVars, nodeInfo, resourceName, skipDaemonSetPods,
                   skipMirrorPods, utilInfo>>

NextUtil == CallCalculate \/ CallCalculateUtilizationOfResource

SpecUtil == InitUtil /\ [][NextUtil]_vars

----------------------------------------------------------------------------
(* Properties of the price model (checked under SpecPrice) *)

NodePriceDone == pc = "done" /\ op = "NodePrice"
PodPriceDone == pc = "done" /\ op = "PodPrice"
GetHoursDone == pc = "done" /\ op = "getHours"

(* the node's labels as the claims read them *)
LabelIs(n, k, v) == ~n.LabelsNil /\ k \in DOMAIN n.Labels /\ n.Labels[k] = v
HasTypeLabel(n) ==
    /\ ~n.LabelsNil
    /\ \/ LabelInstanceTypeStable \in DOMAIN n.Labels
       \/ LabelInstanceType \in DOMAIN n.Labels
(* the stable key takes precedence over the legacy key *)
TypeLabel(n) ==
    IF LabelInstanceTypeStable \in DOMAIN n.Labels
    THEN n.Labels[LabelInstanceTypeStable] ELSE n.Labels[LabelInstanceType]
Preemptible(n) ==
    LabelIs(n, preemptibleLabel, "true") \/ LabelIs(n, spotLabel, "true")
SelectedInstancePrices(m, n) ==
    IF Preemptible(n) THEN m.PreemptibleInstancePrices ELSE m.InstancePrices

(* a cost of p per hour over h / HoursDen hours, in units of 1 / CostDen *)
HourlyCost(p, h) == p * h * MilliDen * GiB * DiscountDen
(* the GPU contribution of NodePrice, in units of 1 / CostDen *)
GpuContribution == NodeGpuPrice(model, node, startTime, endTime) * GiB * DiscountDen
(* the base (non-GPU) cost NodePrice returned *)
BaseCost == price - GpuContribution
(* the CPU+memory price of the node's capacity for instance type t, at full *)
(* price, in units of 1 / CostDen                                           *)
ComponentCost(t) ==
    getBasePrice(model, node.Capacity, t, startTime, endTime) * DiscountDen

C1_Case ==
    /\ NodePriceDone
    /\ HasTypeLabel(node)
    /\ TypeLabel(node) \in DOMAIN SelectedInstancePrices(model, node)

(* C1: a node whose instance type is a key of the selected full-instance    *)
(* price map (the preemptible map iff the preemptible or the spot label is  *)
(* "true") costs exactly tablePrice * hours plus the GPU contribution, with *)
(* no discount and no CPU/memory component price, and a nil error.          *)
C1_TablePrice ==
    C1_Case =>
        /\ price = HourlyCost(SelectedInstancePrices(model, node)[TypeLabel(node)],
                              getHours(startTime, endTime))
                   + GpuContribution
        /\ err = Nil

(* a spot node found in the preemptible table, with a discount entry < 1    *)
(* for its family, CPU/memory capacity, a priced GPU and a non-empty window *)
C1_Witness ==
    /\ C1_Case
    /\ LabelIs(node, spotLabel, "true")
    /\ ~LabelIs(node, preemptibleLabel, "true")
    /\ TypeLabel(node) = N1Standard1
    /\ N1 \in DOMAIN model.PredefinedPreemptibleDiscount
    /\ model.PredefinedPreemptibleDiscount[N1] < DiscountDen
    /\ Lookup(node.Capacity, ResourceCPU, 0) > 0
    /\ GpuContribution > 0
    /\ price = HourlyCost(10, 90) + GpuContribution

(* the discount factor of a preemptible node of instance type t, in units   *)
(* of 1 / DiscountDen                                                       *)
ResolvedDiscount(m, t) ==
    LET table == IF isInstanceCustom(t) THEN m.CustomPreemptibleDiscount
                 ELSE m.PredefinedPreemptibleDiscount
    IN  IF getInstanceFamily(t) \in DOMAIN table THEN table[getInstanceFamily(t)]
        ELSE preemptibleDiscount

C2_Case ==
    /\ NodePriceDone
    /\ Preemptible(node)
    /\ HasTypeLabel(node)
    /\ TypeLabel(node) \notin DOMAIN model.PreemptibleInstancePrices

(* the base cost is the component-priced cost times the resolved discount;  *)
(* costs are over CostDen and the factor over DiscountDen                   *)
C2_Fallback ==
    BaseCost * DiscountDen
        = ComponentCost(TypeLabel(node)) * ResolvedDiscount(model, TypeLabel(node))

(* C2 as stated: the preemptible fallback cost is the component-priced cost *)
(* times the resolved discount factor, and is strictly less than the        *)
(* component-priced cost of the node without the preemptible/spot label      *)
(* whenever the factor is < 1.                                              *)
C2_Original ==
    C2_Case =>
        /\ C2_Fallback
        /\ (ResolvedDiscount(model, TypeLabel(node)) < DiscountDen
                => BaseCost < ComponentCost(TypeLabel(node)))

(* C2, amended: the preemptible fallback cost is the component-priced cost  *)
(* times the resolved discount factor; it is strictly less than the         *)
(* undiscounted component-priced cost whenever the factor is < 1 and that   *)
(* cost is positive, and both are 0 when that cost is 0 (empty or zero      *)
(* capacity, empty window).                                                 *)
C2_Amended ==
    C2_Case =>
        /\ C2_Fallback
        /\ ((ResolvedDiscount(model, TypeLabel(node)) < DiscountDen
                /\ ComponentCost(TypeLabel(node)) > 0)
                => BaseCost < ComponentCost(TypeLabel(node)))
        /\ (ComponentCost(TypeLabel(node)) = 0 => BaseCost = 0)

(* a preemptible custom node, absent from the table, whose family has an    *)
(* entry in both discount tables: the custom one (3/DiscountDen) is applied *)
C2_Witness ==
    /\ C2_Case
    /\ TypeLabel(node) = N2Custom2
    /\ N2 \in DOMAIN model.CustomPreemptibleDiscount
    /\ N2 \in DOMAIN model.PredefinedPreemptibleDiscount
    /\ model.CustomPreemptibleDiscount[N2] # model.PredefinedPreemptibleDiscount[N2]
    /\ ComponentCost(N2Custom2) > 0
    /\ 0 < BaseCost /\ BaseCost < ComponentCost(N2Custom2)

C3_Case == NodePriceDone /\ ~HasTypeLabel(node)

(* C3 as stated: a node with neither instance-type label is priced by the   *)
(* component-priced estimate: its base cost is the CPU+memory price of its  *)
(* capacity for an empty instance type, times the preemptible discount.     *)
C3_Original ==
    C3_Case =>
        BaseCost * DiscountDen
            = ComponentCost(EmptyString) * getPreemptibleDiscount(model, node)

(* C3, amended: a node with neither instance-type label gets no base price  *)
(* at all: its base cost is 0, whatever its capacity, and NodePrice returns *)
(* the GPU contribution alone, with a nil error.                            *)
C3_Amended ==
    C3_Case => BaseCost = 0 /\ price = GpuContribution /\ err = Nil

(* an unlabelled node with CPU and memory capacity, over a non-empty window *)
C3_Witness ==
    /\ C3_Case
    /\ ~node.LabelsNil
    /\ ComponentCost(EmptyString) > 0
    /\ price = 0

(* the price of one container as C4 states it: 0 for an empty request set,  *)
(* else CPU and memory at the predefined price of the empty family (the     *)
(* flat base price without such an entry) plus GPUs at the flat base price  *)
C4_ContainerPrice(m, requests, h) ==
    IF requests = EmptyMap THEN 0
    ELSE LET cpuPrice == IF EmptyString \in DOMAIN m.PredefinedCpuPricePerHour
                         THEN m.PredefinedCpuPricePerHour[EmptyString]
                         ELSE m.BaseCpuPricePerHour
             memPrice == IF EmptyString \in DOMAIN m.PredefinedMemoryPricePerHourPerGb
                         THEN m.PredefinedMemoryPricePerHourPerGb[EmptyString]
                         ELSE m.BaseMemoryPricePerHourPerGb
             q(name) == IF name \in DOMAIN requests THEN requests[name] ELSE 0
         IN  (q(ResourceCPU) * cpuPrice * GiB
              + q(ResourceMemory) * memPrice * MilliDen
              + q(ResourceNvidiaGPU) * m.BaseGpuPricePerHour * GiB)
                 * h * DiscountDen

RECURSIVE C4_Sum(_, _, _)
C4_Sum(m, containers, h) ==
    IF containers = <<>> THEN 0
    ELSE C4_ContainerPrice(m, Head(containers), h) + C4_Sum(m, Tail(containers), h)

(* catalogs that differ at most in the discount tables, the custom-family   *)
(* price tables, the full-instance price maps and the GPU-type price maps   *)
C4_SameFlatPrices(m1, m2) ==
    /\ m1.BaseCpuPricePerHour = m2.BaseCpuPricePerHour
    /\ m1.BaseMemoryPricePerHourPerGb = m2.BaseMemoryPricePerHourPerGb
    /\ m1.BaseGpuPricePerHour = m2.BaseGpuPricePerHour
    /\ m1.PredefinedCpuPricePerHour = m2.PredefinedCpuPricePerHour
    /\ m1.PredefinedMemoryPricePerHourPerGb = m2.PredefinedMemoryPricePerHourPerGb

(* C4: PodPrice returns a nil error and the sum over the containers of the  *)
(* undiscounted CPU+memory price for an unset instance type plus the GPU    *)
(* request at the flat base GPU price; the result does not change with the  *)
(* discount tables, custom-family tables, instance maps or GPU-type maps.   *)
C4_PodPrice ==
    PodPriceDone =>
        /\ err = Nil
        /\ price = C4_Sum(model, pod.Containers, getHours(startTime, endTime))
        /\ \A m2 \in PriceInfos :
               C4_SameFlatPrices(model, m2)
                   => PodPrice(m2, pod, startTime, endTime).price = price

(* two containers, one with an empty request set and one asking for CPU,    *)
(* memory and a GPU, under a catalog with discount and custom tables        *)
C4_Witness ==
    /\ PodPriceDone
    /\ Len(pod.Containers) = 2
    /\ pod.Containers[1] = EmptyMap
    /\ ResourceNvidiaGPU \in DOMAIN pod.Containers[2]
    /\ model.CustomPreemptibleDiscount # EmptyMap
    /\ model.CustomCpuPricePerHour # EmptyMap
    /\ endTime > startTime
    /\ price > 0

Duration == endTime - startTime

C10_TableCase ==
    /\ C1_Case
    /\ Duration = 90 * TicksPerMinute

(* C10 as stated: getHours maps any duration in (0, 60] minutes to exactly  *)
(* 1.0 hours and 61 minutes to 2.0 hours, so a node priced per hour in the  *)
(* full-instance table costs twice that price over exactly 90 minutes.      *)
C10_Original ==
    /\ (GetHoursDone /\ 0 < Duration /\ Duration <= 60 * TicksPerMinute)
           => hours = HoursDen
    /\ (GetHoursDone /\ Duration = 61 * TicksPerMinute) => hours = 2 * HoursDen
    /\ C10_TableCase
           => BaseCost = HourlyCost(SelectedInstancePrices(model, node)[TypeLabel(node)],
                                    2 * HoursDen)

(* C10, amended: getHours rounds the duration up to whole minutes, not to   *)
(* whole hours: it returns m/60 for the least whole number m of minutes     *)
(* that covers the duration, so a duration in (0, 60] minutes maps to at    *)
(* most 1.0 hours (exactly 1.0 only above 59 minutes), 61 minutes to 61/60  *)
(* hours, and a node priced per hour in the full-instance table costs 1.5   *)
(* times that price over exactly 90 minutes.                                *)
C10_Amended ==
    /\ GetHoursDone
           => /\ (hours - 1) * TicksPerMinute < Duration
              /\ Duration <= hours * TicksPerMinute
    /\ (GetHoursDone /\ 0 < Duration /\ Duration <= 60 * TicksPerMinute)
           => /\ 0 < hours /\ hours <= HoursDen
              /\ (hours = HoursDen <=> Duration > 59 * TicksPerMinute)
    /\ (GetHoursDone /\ Duration = 61 * TicksPerMinute) => hours = 61
    /\ C10_TableCase
           => 2 * BaseCost
                  = 3 * HourlyCost(SelectedInstancePrices(model, node)[TypeLabel(node)],
                                   HoursDen)

(* a node priced 100 per hour in the table, over exactly 90 minutes *)
C10_Witness ==
    /\ C10_TableCase
    /\ SelectedInstancePrices(model, node)[TypeLabel(node)] = 100
    /\ BaseCost = HourlyCost(150, HoursDen)

(* 61 minutes and one tick less than 61 minutes both take 61/60 hours *)
C10_WitnessHours ==
    /\ GetHoursDone
    /\ Duration = 61 * TicksPerMinute - 1
    /\ hours = 61

----------------------------------------------------------------------------
(* Properties of the utilization calculator (checked under SpecUtil) *)

CalculateDone == pc = "done" /\ op = "Calculate"
ResourceDone == pc = "done" /\ op = "calculateUtilizationOfResource"

RECURSIVE SumOver(_, _)
(* the sum of f[x] over the x of S *)
SumOver(f, S) ==
    IF S = {} THEN 0
    ELSE LET x == CHOOSE y \in S : TRUE
         IN  f[x] + SumOver(f, S \ {x})

(* the requests of pod p for the resource: the sum over its containers *)
PodRequest(p, name) ==
    SumOver([i \in 1..Len(p.Containers) |->
                 IF name \in DOMAIN p.Containers[i] THEN p.Containers[i][name]
                 ELSE 0],
            1..Len(p.Containers))

(* the pods taken off the allocatable under the skip flags of the call *)
Skipped(p) ==
    \/ skipDaemonSetPods /\ p.IsDaemonSet
    \/ skipMirrorPods /\ p.IsMirror

PodIndices(ni) == 1..Len(ni.Pods)

(* D: the requests of the skipped daemonset and mirror pods *)
Adjustment(ni, name) ==
    SumOver([i \in PodIndices(ni) |-> PodRequest(ni.Pods[i], name)],
            {i \in PodIndices(ni) : Skipped(ni.Pods[i])})

(* N: the requests of the other pods that are not long-terminating *)
Numerator(ni, name) ==
    SumOver([i \in PodIndices(ni) |-> PodRequest(ni.Pods[i], name)],
            {i \in PodIndices(ni) :
                ~Skipped(ni.Pods[i]) /\ ~ni.Pods[i].IsLongTerminating})

Usable(ni, name) == name \in DOMAIN ni.Allocatable /\ ni.Allocatable[name] # 0

RegularPod500 ==
    [IsDaemonSet |-> FALSE, IsMirror |-> FALSE, IsLongTerminating |-> FALSE,
     Containers |-> << ResourceCPU :> 500 @@ ResourceMemory :> 250 >>]
DaemonSetPod300 ==
    [IsDaemonSet |-> TRUE, IsMirror |-> FALSE, IsLongTerminating |-> FALSE,
     Containers |->
         << ResourceCPU :> 100 @@ ResourceNvidiaGPU :> 500,
            ResourceCPU :> 200 @@ ResourceMemory :> 1000 @@ ResourceNvidiaGPU :> 500 >>]

(* allocatable CPU 2000m, a regular pod asking 500m, a daemonset pod 300m *)
C5_Example ==
    /\ ResourceDone
    /\ resourceName = ResourceCPU
    /\ Usable(nodeInfo, ResourceCPU)
    /\ nodeInfo.Allocatable[ResourceCPU] = 2000
    /\ nodeInfo.Pods = <<RegularPod500, DaemonSetPod300>>

(* C5: with allocatable A present and non-zero, the per-resource            *)
(* utilization is N / (A - D), D the requests of the pods that are          *)
(* (daemonset and skipDaemonSetPods) or (mirror and skipMirrorPods), N the  *)
(* requests of every other pod that is not long-terminating; e.g. 500/1700  *)
(* with and 800/2000 without skipDaemonSetPods.                             *)
C5_Utilization ==
    /\ (ResourceDone /\ Usable(nodeInfo, resourceName))
           => /\ err = Nil
              /\ util = FloatDiv(Numerator(nodeInfo, resourceName),
                                 nodeInfo.Allocatable[resourceName]
                                     - Adjustment(nodeInfo, resourceName))
    /\ (C5_Example /\ skipDaemonSetPods) => util = [num |-> 5, den |-> 17]
    /\ (C5_Example /\ ~skipDaemonSetPods) => util = [num |-> 2, den |-> 5]

C5_Witness ==
    /\ C5_Example
    /\ skipDaemonSetPods
    /\ util = [num |-> 5, den |-> 17]

(* the node without its i-th pod *)
WithoutPod(ni, i) ==
    [ni EXCEPT !.Pods = SubSeq(ni.Pods, 1, i - 1) \o SubSeq(ni.Pods, i + 1, Len(ni.Pods))]

(* the node with its i-th pod no longer long-terminating *)
NotTerminating(ni, i) ==
    [ni EXCEPT !.Pods[i].IsLongTerminating = FALSE]

Returned == [info |-> utilInfo, err |-> err]

(* the skipped pods leave some of every allocatable resource: no ratio of   *)
(* the call divides by zero or by a negative number                         *)
PositiveDivisors ==
    \A name \in DOMAIN nodeInfo.Allocatable :
        Adjustment(nodeInfo, name) < nodeInfo.Allocatable[name]

(* C6 as stated: a long-terminating pod counts in neither the numerator nor *)
(* the denominator adjustment, also when it is a daemonset or mirror pod:   *)
(* removing it never changes the result of Calculate.  (Stated here for the *)
(* calls whose divisors are positive, where every ratio is finite.)         *)
C6_Original ==
    (CalculateDone /\ PositiveDivisors) =>
        \A i \in PodIndices(nodeInfo) :
            nodeInfo.Pods[i].IsLongTerminating
                => Calculate(WithoutPod(nodeInfo, i), skipDaemonSetPods,
                             skipMirrorPods) = Returned

(* C6, amended: a long-terminating pod that is not skipped as a daemonset   *)
(* or mirror pod counts in neither the numerator nor the denominator        *)
(* adjustment: removing it never changes the result of Calculate.  A        *)
(* long-terminating pod that is skipped (daemonset with skipDaemonSetPods,  *)
(* mirror with skipMirrorPods) is taken off the allocatable like any other  *)
(* skipped pod: the result is the same as if it were not terminating.       *)
C6_Amended ==
    CalculateDone =>
        \A i \in PodIndices(nodeInfo) :
            nodeInfo.Pods[i].IsLongTerminating
                => IF Skipped(nodeInfo.Pods[i])
                   THEN Calculate(NotTerminating(nodeInfo, i), skipDaemonSetPods,
                                  skipMirrorPods) = Returned
                   ELSE Calculate(WithoutPod(nodeInfo, i), skipDaemonSetPods,
                                  skipMirrorPods) = Returned

(* a long-terminating daemonset pod that is not skipped, beside a running   *)
(* pod, on a node whose CPU and memory are both in use                      *)
C6_Witness ==
    /\ CalculateDone
    /\ err = Nil
    /\ ~nodeInfo.HasGpu
    /\ ~skipDaemonSetPods
    /\ Len(nodeInfo.Pods) = 2
    /\ nodeInfo.Pods[1].IsLongTerminating
    /\ nodeInfo.Pods[1].IsDaemonSet
    /\ ~nodeInfo.Pods[2].IsLongTerminating
    /\ utilInfo.Utilization.num > 0

(* C7: on a node with GPU, Calculate returns a nil error, ResourceName =    *)
(* GPU, Utilization = GpuUtil and CpuUtil = MemUtil = 0, whatever CPU and   *)
(* memory are; on a node without GPU a successful Info has GpuUtil = 0 and  *)
(* ResourceName CPU or memory.                                              *)
C7_GpuExclusive ==
    CalculateDone =>
        IF nodeInfo.HasGpu
        THEN /\ err = Nil
             /\ utilInfo.ResourceName = ResourceNvidiaGPU
             /\ utilInfo.Utilization = utilInfo.GpuUtil
             /\ utilInfo.CpuUtil = FloatZero
             /\ utilInfo.MemUtil = FloatZero
        ELSE err = Nil
                 => /\ utilInfo.GpuUtil = FloatZero
                    /\ utilInfo.ResourceName \in {ResourceCPU, ResourceMemory}

(* a GPU node with CPU and memory in use by a pod, reporting its GPU *)
C7_Witness ==
    /\ CalculateDone
    /\ nodeInfo.HasGpu
    /\ Usable(nodeInfo, ResourceCPU)
    /\ Numerator(nodeInfo, ResourceCPU) > 0
    /\ Numerator(nodeInfo, ResourceMemory) > 0
    /\ utilInfo.GpuUtil.num > 0 /\ utilInfo.GpuUtil.den > 0
    /\ utilInfo.Utilization = utilInfo.GpuUtil

(* C8: on a GPU node whose GPU allocatable is absent or zero, Calculate     *)
(* succeeds with GpuUtil = 0, Utilization = 0 and ResourceName = GPU; on a  *)
(* node without GPU it returns an error and the zero Info whenever CPU or   *)
(* memory allocatable is absent or zero, and succeeds only when both are    *)
(* present and non-zero.                                                    *)
C8_ErrorHandling ==
    CalculateDone =>
        /\ (nodeInfo.HasGpu /\ ~Usable(nodeInfo, ResourceNvidiaGPU))
               => /\ err = Nil
                  /\ utilInfo.GpuUtil = FloatZero
                  /\ utilInfo.Utilization = FloatZero
                  /\ utilInfo.ResourceName = ResourceNvidiaGPU
        /\ ~nodeInfo.HasGpu
               => /\ (~Usable(nodeInfo, ResourceCPU) \/ ~Usable(nodeInfo, ResourceMemory))
                         => (err # Nil /\ utilInfo = ZeroInfo)
                  /\ err = Nil
                         <=> (Usable(nodeInfo, ResourceCPU)
                                 /\ Usable(nodeInfo, ResourceMemory))

(* a GPU node without GPU allocatable and without CPU allocatable, with a   *)
(* pod asking for GPUs                                                      *)
C8_Witness ==
    /\ CalculateDone
    /\ nodeInfo.HasGpu
    /\ ResourceNvidiaGPU \notin DOMAIN nodeInfo.Allocatable
    /\ ~Usable(nodeInfo, ResourceCPU)
    /\ Len(nodeInfo.Pods) > 0
    /\ PodRequest(nodeInfo.Pods[1], ResourceNvidiaGPU) > 0
    /\ err = Nil

(* a node without GPU and with zero memory allocatable: an error *)
C8_WitnessError ==
    /\ CalculateDone
    /\ ~nodeInfo.HasGpu
    /\ Usable(nodeInfo, ResourceCPU)
    /\ ResourceMemory \in DOMAIN nodeInfo.Allocatable
    /\ nodeInfo.Allocatable[ResourceMemory] = 0
    /\ err = ErrZero

(* C9: whenever calculateUtilizationOfResource, and hence Calculate,        *)
(* returns without error, the divisor of the ratio is non-zero: no returned *)
(* utilization is NaN or +-Inf.                                             *)
C9_NoDivisionByZero ==
    /\ (ResourceDone /\ err = Nil) => util.den # 0
    /\ (CalculateDone /\ err = Nil)
           => /\ utilInfo.CpuUtil.den # 0
              /\ utilInfo.MemUtil.den # 0
              /\ utilInfo.GpuUtil.den # 0
              /\ utilInfo.Utilization.den # 0

====
